---- MODULE Spec2Model ----
(***************************************************************************)
(* Model of xn2v/neural_networks.py: the trainer NeuralNetwork, its three  *)
(* architectures (MLP, FFNN, MultiModalFFNN) and the calls fit, predict    *)
(* and predict_proba.  Strings the code inspects character by character    *)
(* (the monitor metric, the metric names) are sequences of characters.     *)
(* The Keras engine is modelled at its interface: the parameters its       *)
(* Model.fit binds, the metric names compile registers, the rows of the    *)
(* history it returns.                                                     *)
(***************************************************************************)
EXTENDS Integers, Sequences, FiniteSets, TLC

\* ------------------------------------------------------------------ bounds
MaxEpochs == 2
MaxPatience == 1

BatchSizes == {1, 64}
Dims == {1, 2}

\* ----------------------------------------------------------------- strings
S_loss == <<"l", "o", "s", "s">>
S_accuracy == <<"a", "c", "c", "u", "r", "a", "c", "y">>
S_auroc == <<"a", "u", "r", "o", "c">>
S_auprc == <<"a", "u", "p", "r", "c">>
S_val == <<"v", "a", "l">>
S_val_ == <<"v", "a", "l", "_">>

\* str.startswith
StartsWith(s, prefix) ==
    /\ Len(s) >= Len(prefix)
    /\ SubSeq(s, 1, Len(prefix)) = prefix

\* The monitor metrics a trainer is constructed with.
Monitors == {S_auprc, S_loss, S_val_ \o S_loss, S_val}

\* Python's None, and a present array of n examples.
None == <<>>
Arr(n) == <<n>>
IsNone(d) == d = None
Opt == {None} \cup {Arr(n) : n \in Dims}

\* ------------------------------------------------------------ architectures
Dense(units, activation) ==
    [layer |-> "Dense", units |-> units, activation |-> activation, rate |-> 0]
BatchNormalization ==
    [layer |-> "BatchNormalization", units |-> 0, activation |-> "none", rate |-> 0]
Activation(a) ==
    [layer |-> "Activation", units |-> 0, activation |-> a, rate |-> 0]
\* rate in tenths: Dropout(3) is Dropout(0.3)
Dropout(tenths) ==
    [layer |-> "Dropout", units |-> 0, activation |-> "none", rate |-> tenths]
Input(name) ==
    [layer |-> "Input", units |-> 0, activation |-> name, rate |-> 0]
Concatenate ==
    [layer |-> "Concatenate", units |-> 0, activation |-> "none", rate |-> 0]

MLP_build_model ==
    [name |-> "MLP",
     branches |-> <<>>,
     stack |-> << Input("input"),
                  Dense(128, "relu"),
                  Dense(128, "relu"),
                  Dense(64, "relu"),
                  Dense(32, "relu"),
                  Dense(16, "relu"),
                  Dense(1, "sigmoid") >>]

FFNN_build_model ==
    [name |-> "FFNN",
     branches |-> <<>>,
     stack |-> << Input("input"),
                  Dense(128, "relu"),
                  Dense(128, "none"),
                  BatchNormalization,
                  Activation("relu"),
                  Dropout(3),
                  Dense(64, "relu"),
                  Dense(64, "relu"),
                  BatchNormalization,
                  Activation("relu"),
                  Dropout(3),
                  Dense(32, "relu"),
                  Dense(32, "relu"),
                  BatchNormalization,
                  Activation("relu"),
                  Dropout(3),
                  Dense(16, "relu"),
                  Dense(8, "relu"),
                  Dense(1, "sigmoid") >>]

sub_module(previous) ==
    << previous,
       Dense(128, "relu"),
       Dense(128, "none"),
       BatchNormalization,
       Activation("relu"),
       Dropout(3),
       Dense(64, "relu"),
       Dense(64, "relu"),
       BatchNormalization,
       Activation("relu"),
       Dropout(3),
       Dense(32, "relu"),
       Dense(32, "relu"),
       BatchNormalization,
       Activation("relu") >>

MultiModalFFNN_build_model ==
    [name |-> "MultiModalFFNN",
     branches |-> << sub_module(Input("left_input")),
                     sub_module(Input("right_input")) >>,
     stack |-> << Concatenate,
                  Dropout(3),
                  Dense(64, "relu"),
                  Dense(64, "relu"),
                  BatchNormalization,
                  Activation("relu"),
                  Dropout(3),
                  Dense(32, "relu"),
                  Dense(32, "relu"),
                  BatchNormalization,
                  Activation("relu"),
                  Dense(16, "relu"),
                  Dense(8, "relu"),
                  Dense(1, "sigmoid") >>]

Architectures == {"MLP", "FFNN", "MultiModalFFNN"}

\* self._build_model(), dispatched on the class of the trainer
build_model(cls) ==
    CASE cls = "MLP" -> MLP_build_model
      [] cls = "FFNN" -> FFNN_build_model
      [] cls = "MultiModalFFNN" -> MultiModalFFNN_build_model

\* the names of the metrics handed to compile, in order
compile_metrics == << S_accuracy, S_auroc, S_auroc >>

\* ------------------------------------------------------------------ engine
\* The parameters tensorflow.keras Model.fit binds; any other keyword is
\* rejected with a TypeError before the engine looks at the data.
EngineFitParams ==
    {"x", "y", "batch_size", "epochs", "verbose", "callbacks",
     "validation_split", "validation_data", "shuffle", "class_weight",
     "sample_weight", "initial_epoch", "steps_per_epoch", "validation_steps"}

\* The columns of one history row: the loss and one column per metric name
\* (metrics of one name share a column), validation-prefixed when the engine
\* was given validation data.
HistoryKeys(metrics, validation_data) ==
    LET train_keys == {S_loss} \cup {metrics[i] : i \in DOMAIN metrics}
    IN  IF IsNone(validation_data)
        THEN train_keys
        ELSE train_keys \cup {S_val_ \o k : k \in train_keys}

\* Leading dimension of a feature collection: an array, or a dictionary of
\* named arrays that must agree.  0 when they disagree.
Leading(x) ==
    IF DOMAIN x = {"left_input", "right_input"}
    THEN (IF x.left_input = x.right_input THEN x.left_input[1] ELSE 0)
    ELSE x[1]

Min(a, b) == IF a < b THEN a ELSE b

\* Epochs the loop runs when the monitored metric last improves at epoch k:
\* EarlyStopping counts the epochs without improvement and stops the loop
\* once the count reaches patience; a monitor that is not among the reported
\* columns never stops it.
EpochsRun(keys, monitor, patience, epochs, k) ==
    IF monitor \notin keys
    THEN epochs
    ELSE Min(k + (IF patience = 0 THEN 1 ELSE patience), epochs)

\* self._model.fit(x, y, **kwargs): the set of results the call can have.
Model_fit(metrics, x, y, kwargs) ==
    IF ~(DOMAIN kwargs \subseteq EngineFitParams)
    THEN {[error |-> "TypeError", history |-> <<>>, epochs |-> 0]}
    ELSE LET vd == IF "validation_data" \in DOMAIN kwargs
                   THEN kwargs.validation_data ELSE None
             es == kwargs.callbacks[1]
             keys == HistoryKeys(metrics, vd)
         IN  IF \/ Leading(x) = 0
                \/ Leading(x) # y[1]
                \/ (~IsNone(vd) /\ (Leading(vd[1]) = 0 \/ Leading(vd[1]) # vd[2][1]))
             THEN {[error |-> "ValueError", history |-> <<>>, epochs |-> 0]}
             ELSE {[error |-> "none",
                    history |-> [e \in 1..EpochsRun(keys, es.monitor, es.patience,
                                                    kwargs.epochs, k) |-> keys],
                    epochs |-> EpochsRun(keys, es.monitor, es.patience,
                                         kwargs.epochs, k)]
                   : k \in 1..kwargs.epochs}

\* self._model.predict(x): one score per example.
Model_predict(x) ==
    IF Leading(x) = 0
    THEN [error |-> "ValueError", scores |-> 0]
    ELSE [error |-> "none", scores |-> Leading(x)]

\* self._model.predict_proba(x): only Sequential models define it, and only
\* in some versions of the engine.
Model_predict_proba(name, x) ==
    IF name \in {"MLP", "FFNN"}
    THEN {Model_predict(x), [error |-> "AttributeError", scores |-> 0]}
    ELSE {[error |-> "AttributeError", scores |-> 0]}

\* ------------------------------------------------------------------- state
VARIABLES
    cls,            \* the class of the trainer
    max_epochs,     \* self._max_epochs
    batch_size,     \* self._batch_size
    monitor,        \* self._monitor
    patience,       \* self._patience
    model,          \* self._model: the architecture, its compiled metrics, its weights
    notebook,       \* what is_notebook() answers in this process
    last            \* the last call made on the trainer and its outcome

vars == << cls, max_epochs, batch_size, monitor, patience, model, notebook, last >>

hyper == << max_epochs, batch_size, monitor, patience >>

NoCall ==
    [op |-> "none", args |-> <<>>, base_test |-> None, error |-> "none",
     history |-> <<>>, epochs |-> 0, reporter |-> "none", queries |-> 0,
     early_stopping |-> <<>>, scores |-> 0]

\* NeuralNetwork.__init__: the hyperparameters, then the architecture built
\* once and compiled.
Init ==
    /\ cls \in Architectures
    /\ max_epochs \in 1..MaxEpochs
    /\ batch_size \in BatchSizes
    /\ monitor \in Monitors
    /\ patience \in 0..MaxPatience
    /\ model = [arch |-> build_model(cls), builds |-> 1,
                optimizer |-> "nadam", loss |-> "binary_crossentropy",
                metrics |-> compile_metrics, weights |-> 0]
    /\ notebook \in BOOLEAN
    /\ last = NoCall

\* The keywords of the call self._model.fit(*train, ...).
fit_kwargs(test, callbacks) ==
    [epochs |-> max_epochs,
     batch_size |-> batch_size,
     validation |-> test,
     verbose |-> FALSE,
     shuffle |-> TRUE,
     callbacks |-> callbacks]

\* The guard with its first test inverted.
MissingValidation_inverted(test) == ~IsNone(test) /\ StartsWith(monitor, S_val_)

\* The guard at the head of NeuralNetwork.fit.
MissingValidation(test) == IsNone(test) /\ StartsWith(monitor, S_val_)

\* fit with the conditional taken over the whole callback list: in a notebook
\* the list holds the reporter alone.
NeuralNetwork_fit_reporter_only(is_notebook, train, test) ==
    IF MissingValidation(test)
    THEN {[base_test |-> test, error |-> "ValueError", history |-> <<>>,
           epochs |-> 0, reporter |-> "none", queries |-> 0,
           early_stopping |-> <<>>]}
    ELSE LET reporter == IF is_notebook THEN "TQDMNotebookCallback" ELSE "TQDMCallback"
             es == [cb |-> "EarlyStopping", monitor |-> monitor, patience |-> patience]
             callbacks == IF is_notebook THEN << [cb |-> reporter] >>
                                         ELSE << es, [cb |-> reporter] >>
         IN  {[base_test |-> test, error |-> r.error, history |-> r.history,
               epochs |-> r.epochs, reporter |-> reporter, queries |-> 1,
               early_stopping |-> IF is_notebook THEN <<>> ELSE << es >>]
              : r \in Model_fit(model.metrics, train[1], train[2],
                                fit_kwargs(test, callbacks))}

\* NeuralNetwork.fit(train, test): the set of outcomes of the call in a process
\* where is_notebook() answers is_notebook.
NeuralNetwork_fit(is_notebook, train, test) ==
    IF MissingValidation(test)
    THEN {[base_test |-> test, error |-> "ValueError", history |-> <<>>,
           epochs |-> 0, reporter |-> "none", queries |-> 0,
           early_stopping |-> <<>>]}
    ELSE LET reporter == IF is_notebook THEN "TQDMNotebookCallback" ELSE "TQDMCallback"
             es == [cb |-> "EarlyStopping", monitor |-> monitor, patience |-> patience]
             callbacks == << es, [cb |-> reporter] >>
         IN  {[base_test |-> test, error |-> r.error, history |-> r.history,
               epochs |-> r.epochs, reporter |-> reporter, queries |-> 1,
               early_stopping |-> << es >>]
              : r \in Model_fit(model.metrics, train[1], train[2],
                                fit_kwargs(test, callbacks))}

\* The validation data built as soon as any of the three is present.
MultiModal_test_any(left_input_test, right_input_test, output_test) ==
    IF \E d \in {left_input_test, right_input_test, output_test} : ~IsNone(d)
    THEN << [left_input |-> left_input_test, right_input |-> right_input_test],
            output_test >>
    ELSE None

\* The validation data MultiModalFFNN.fit hands to the base fit.
MultiModal_test(left_input_test, right_input_test, output_test) ==
    IF \A d \in {left_input_test, right_input_test, output_test} : ~IsNone(d)
    THEN << [left_input |-> left_input_test, right_input |-> right_input_test],
            output_test >>
    ELSE None

\* MultiModalFFNN.fit
MultiModalFFNN_fit(left_input_train, right_input_train, output_train, left_input_test, right_input_test, output_test) ==
    NeuralNetwork_fit(
        notebook,
        << [left_input |-> left_input_train, right_input |-> right_input_train],
           output_train >>,
        MultiModal_test(left_input_test, right_input_test, output_test))

Outcome(op, args, o) ==
    [op |-> op, args |-> args, base_test |-> o.base_test, error |-> o.error,
     history |-> o.history, epochs |-> o.epochs, reporter |-> o.reporter,
     queries |-> o.queries, early_stopping |-> o.early_stopping, scores |-> 0]

\* A call of fit on an MLP or an FFNN.
Fit ==
    /\ cls \in {"MLP", "FFNN"}
    /\ \E x \in Dims, y \in Dims, test \in {None} \cup {<<Arr(a), Arr(b)>> : a, b \in Dims} :
         \E o \in NeuralNetwork_fit(notebook, <<Arr(x), Arr(y)>>, test) :
            /\ last' = Outcome("fit", [train |-> <<Arr(x), Arr(y)>>, test |-> test], o)
            /\ model' = [model EXCEPT !.weights = @ + o.epochs]
    /\ UNCHANGED << cls, hyper, notebook >>

\* A call of fit on a MultiModalFFNN.  The training labels are as many as the
\* left features; the right features and the three validation arguments vary.
MultiModalFit ==
    /\ cls = "MultiModalFFNN"
    /\ \E l \in Dims, r \in Dims, lt \in Opt, rt \in Opt, yt \in Opt :
         \E o \in MultiModalFFNN_fit(Arr(l), Arr(r), Arr(l), lt, rt, yt) :
            /\ last' = Outcome("fit",
                               [left_input_train |-> Arr(l), right_input_train |-> Arr(r),
                                output_train |-> Arr(l), left_input_test |-> lt,
                                right_input_test |-> rt, output_test |-> yt], o)
            /\ model' = [model EXCEPT !.weights = @ + o.epochs]
    /\ UNCHANGED << cls, hyper, notebook >>

\* The inputs of an inference call: one array, or one per named input.
InferenceInputs ==
    IF cls = "MultiModalFFNN"
    THEN {[left_input |-> Arr(l), right_input |-> Arr(r)] : l, r \in Dims}
    ELSE {Arr(n) : n \in Dims}

\* predict run as a training step: the weights move.
Predict_training ==
    /\ \E x \in InferenceInputs :
         LET r == Model_predict(x)
         IN  last' = [NoCall EXCEPT !.op = "predict", !.args = x,
                                    !.error = r.error, !.scores = r.scores]
    /\ model' = [model EXCEPT !.weights = (@ + 1) % 2]
    /\ UNCHANGED << cls, hyper, notebook >>

\* NeuralNetwork.predict
Predict ==
    /\ \E x \in InferenceInputs :
         LET r == Model_predict(x)
         IN  last' = [NoCall EXCEPT !.op = "predict", !.args = x,
                                    !.error = r.error, !.scores = r.scores]
    /\ UNCHANGED << cls, hyper, model, notebook >>

\* NeuralNetwork.predict_proba
PredictProba ==
    /\ \E x \in InferenceInputs :
         \E r \in Model_predict_proba(model.arch.name, x) :
            last' = [NoCall EXCEPT !.op = "predict_proba", !.args = x,
                                   !.error = r.error, !.scores = r.scores]
    /\ UNCHANGED << cls, hyper, model, notebook >>

Next == Fit \/ MultiModalFit \/ Predict \/ PredictProba

Spec == Init /\ [][Next]_vars

\* ------------------------------------------------------- the calls observed
IsFit == last.op = "fit"

\* The fit call passed the guard and reached the engine.
ReachedEngine == IsFit /\ ~(IsNone(last.base_test) /\ StartsWith(monitor, S_val_))

\* How many validation arguments the caller supplied to the fit call.
TestsSupplied ==
    IF cls = "MultiModalFFNN"
    THEN Cardinality({f \in {"left_input_test", "right_input_test", "output_test"} :
                        ~IsNone(last.args[f])})
    ELSE IF IsNone(last.args.test) THEN 0 ELSE 1

\* Every validation argument the method takes was supplied.
AllTestsSupplied ==
    TestsSupplied = (IF cls = "MultiModalFFNN" THEN 3 ELSE 1)

\* The leading dimensions of the training arguments agree.
TrainAgrees ==
    IF cls = "MultiModalFFNN"
    THEN /\ last.args.left_input_train = last.args.right_input_train
         /\ last.args.left_input_train = last.args.output_train
    ELSE last.args.train[1] = last.args.train[2]

\* The leading dimensions of the supplied validation arguments agree.
TestAgrees ==
    IF cls = "MultiModalFFNN"
    THEN /\ last.args.left_input_test = last.args.right_input_test
         /\ last.args.left_input_test = last.args.output_test
    ELSE \/ IsNone(last.args.test)
         \/ last.args.test[1] = last.args.test[2]

ValKeys(keys) == {S_val_ \o k : k \in keys}

\* -------------------------------------------------------------------- C1
\* C1: when the monitor starts with "val_" and fit is given test = None, the
\* call fails with the ValueError of the guard, runs no epoch, emits no
\* history row, creates no progress reporter (the host is not even asked)
\* and leaves the architecture, weights included, as it was.
C1_GateBeforeAnything ==
    [][ (last'.op = "fit" /\ IsNone(last'.base_test) /\ StartsWith(monitor, S_val_))
        => /\ last'.error = "ValueError"
           /\ last'.epochs = 0
           /\ last'.history = <<>>
           /\ last'.reporter = "none"
           /\ last'.queries = 0
           /\ last'.early_stopping = <<>>
           /\ model' = model ]_vars

C1_Witness ==
    /\ IsFit
    /\ monitor = S_val_ \o S_loss
    /\ IsNone(last.base_test)
    /\ last.error = "ValueError"
    /\ last.reporter = "none"

\* -------------------------------------------------------------------- C2
\* C2: with a monitor that does not start with "val_", fit called with
\* training data only (of agreeing leading dimensions) raises no error and
\* returns one row per completed epoch, at most max_epochs rows.
C2_TrainOnlySucceeds ==
    (IsFit /\ ~StartsWith(monitor, S_val_) /\ TestsSupplied = 0 /\ TrainAgrees)
    => /\ last.error = "none"
       /\ Len(last.history) = last.epochs
       /\ Len(last.history) <= max_epochs

\* -------------------------------------------------------------------- C3
\* C3: when the monitored metric never improves after some epoch k, fit stops
\* at epoch min(k + patience, max_epochs) and returns as many rows as epochs
\* run, all rows retained.
C3_EarlyStopping ==
    (ReachedEngine /\ TrainAgrees /\ TestAgrees)
    => /\ last.error = "none"
       /\ \E k \in 1..max_epochs :
             /\ last.epochs = Min(k + patience, max_epochs)
             /\ Len(last.history) = last.epochs
             /\ DOMAIN last.history = 1..last.epochs

\* -------------------------------------------------------------------- C4
\* C4: a MultiModalFFNN fit given exactly one or two of left_input_test,
\* right_input_test, output_test hands test = None to the base fit and has
\* the outcome of the same call with none of the three given.
C4_PartialValidationIsNone ==
    (IsFit /\ cls = "MultiModalFFNN" /\ TestsSupplied \in {1, 2})
    => /\ IsNone(last.base_test)
       /\ \E o \in MultiModalFFNN_fit(last.args.left_input_train,
                                      last.args.right_input_train,
                                      last.args.output_train, None, None, None) :
             /\ o.base_test = last.base_test
             /\ o.error = last.error
             /\ o.history = last.history
             /\ o.epochs = last.epochs
             /\ o.reporter = last.reporter
             /\ o.early_stopping = last.early_stopping

C4_Witness ==
    /\ IsFit
    /\ cls = "MultiModalFFNN"
    /\ TestsSupplied = 2
    /\ IsNone(last.args.output_test)
    /\ IsNone(last.base_test)

\* -------------------------------------------------------------------- C5
\* C5: the architecture is compiled with three distinctly named metrics,
\* accuracy, auroc and auprc, so that every history row has the columns
\* loss, accuracy, auroc and auprc and the default monitor "auprc" is a
\* column early stopping can read.
C5_MetricNames ==
    /\ \A i, j \in DOMAIN model.metrics : i # j => model.metrics[i] # model.metrics[j]
    /\ {model.metrics[i] : i \in DOMAIN model.metrics} = {S_accuracy, S_auroc, S_auprc}
    /\ S_auprc \in HistoryKeys(model.metrics, None)
    /\ \A e \in DOMAIN last.history :
          {S_loss, S_accuracy, S_auroc, S_auprc} \subseteq last.history[e]

\* -------------------------------------------------------------------- C6
\* C6: validation data supplied to fit reaches the training loop as its
\* validation data: the call runs, every row carries the validation-prefixed
\* counterpart of each column, and early stopping tracks the monitor; without
\* validation data no validation-prefixed column appears.
C6_ValidationReachesLoop ==
    /\ (IsFit /\ AllTestsSupplied /\ TrainAgrees /\ TestAgrees)
       => /\ ~IsNone(last.base_test)
          /\ last.error = "none"
          /\ last.epochs >= 1
          /\ \A e \in DOMAIN last.history :
                ValKeys(HistoryKeys(model.metrics, None)) \subseteq last.history[e]
          /\ last.early_stopping = << [cb |-> "EarlyStopping", monitor |-> monitor,
                                       patience |-> patience] >>
    /\ (IsFit /\ IsNone(last.base_test))
       => \A e \in DOMAIN last.history :
             ValKeys(HistoryKeys(model.metrics, None)) \cap last.history[e] = {}

\* -------------------------------------------------------------------- C7
\* C7: when the leading dimensions of the training features and labels, of
\* the validation features and labels, or of the left and right features
\* disagree, a fit call that passes the guard ends in the error raised for
\* the data (a ValueError), with no epoch run and no weight updated.
C7_ShapeMismatch ==
    (ReachedEngine /\ (~TrainAgrees \/ (AllTestsSupplied /\ ~TestAgrees)))
    => /\ last.error = "ValueError"
       /\ last.epochs = 0
       /\ model.weights = 0

C9_BlockOrder ==
    cls = "FFNN" =>
       LET stack == model.arch.stack
       IN  /\ \A w \in {128, 64, 32} :
                \E i \in 1..(Len(stack) - 4) :
                   SubSeq(stack, i, i + 4) =
                      << Dense(w, "relu"), Dense(w, "none"), BatchNormalization,
                         Activation("relu"), Dropout(3) >>
           /\ \A i \in 2..Len(stack) :
                /\ stack[i].layer = "BatchNormalization"
                   => stack[i - 1] \in {Dense(w, "none") : w \in {128, 64, 32}}
                /\ stack[i].layer = "Dropout"
                   => stack[i - 1] = Activation("relu")

====
